---- MODULE Spec2Model ----
(***************************************************************************)
(* A state-machine model of assets/js/script.js, the page controller of    *)
(* the portfolio site: hash routing, nav-link highlighting, the throttled  *)
(* scroll listeners, the theme toggle, the testimonials modal, the mobile  *)
(* menu and the portfolio filter.                                          *)
(*                                                                         *)
(* Strings the script transforms (toLowerCase, toUpperCase, slice,         *)
(* includes, template concatenation) are sequences of one-character        *)
(* strings, so that the transformations are computed and not assumed.      *)
(***************************************************************************)
EXTENDS Integers, Sequences, FiniteSets, TLC

VARIABLES
  phase,            \* "loading", "scripted" once the script body has run, "ready" after initApp
  hist, hidx,       \* session history: fragments, and the current entry
  pageActive,       \* names (data-page) of the pages carrying class "active"
  navLinkActive,    \* labels of the [data-nav-link] carrying class "active"
  docTitle,         \* document.title
  inThrottle,       \* the inThrottle flag of each throttle() closure
  headerScrolled,   \* #header carries class "scrolled"
  scrollTopVisible, \* #scrollTop carries class "visible"
  scrollY,          \* window.scrollY
  throttleRuns,     \* observation: how often each throttled function has run since
                    \* its window last closed
  storage,          \* what the browser lets the page do with localStorage: "ok",
                    \* "readonly" (setItem throws), "blocked" (every access throws)
  storedTheme,      \* localStorage entry "theme", "null" when there is none
  dataTheme,        \* the data-theme attribute of <html>, "null" when not set
  themeIcon,        \* the fa-sun / fa-moon classes of the toggle's icon
  themeLog,         \* observation: the last three <<applied, stored>> pairs, one
                    \* taken after the load and one after each toggle click
  modalActive,      \* [data-modal-container] carries class "active"
  overlayActive,    \* [data-overlay] carries class "active"
  noScroll,         \* <body> carries class "no-scroll"
  focused,          \* the element holding the focus
  modalImgSrc, modalImgAlt,   \* [data-modal-img]: src and alt
  modalTitle, modalText,      \* innerHTML of [data-modal-title], [data-modal-text]
  menuActive,       \* #navLinks carries class "active"
  menuIcon,         \* the fa-bars / fa-times classes of the menu button's icon
  filterItemActive, \* the [data-filter-item] elements carrying class "active"
  filterTimers,     \* the pending 50 ms timers of filterFunc, oldest first: the
                    \* item each will show
  selectValueText,  \* innerText of [data-select-value]
  selectActive,     \* [data-select] carries class "active" (the dropdown is open)
  filterBtnActive,  \* labels of the [data-filter-btn] carrying class "active"
  lastClickedBtn,   \* the script's lastClickedBtn, by label
  hasSelect,        \* the markup holds a [data-select] element
  uncaught,         \* observation: a handler has ended in an uncaught TypeError
  fieldValue,       \* value of each [data-form-input]
  formBtnDisabled,  \* [data-form-btn] carries the attribute "disabled"
  formBtnHTML,      \* innerHTML of [data-form-btn]
  timers,           \* the pending timers of the form, in the order they were
                    \* set: those of the debounce() closures and of the submit
                    \* handlers
  lastArgs,         \* observation: the arguments of the last call of each closure,
                    \* <<>> while it has not been called
  ranArgs,          \* observation: the arguments the wrapped function last ran with
  funcRuns,         \* observation: runs of the wrapped function since the last call
  submitReturned,   \* observation: the last event of the form was a submit
                    \* whose handler returned at its validity test
  burstCalls,       \* observation: calls of each closure in its last burst, a
                    \* burst starting with a call that finds no timer pending
  imgWatched,       \* the images imageObserver observes
  imgSrc,           \* src of each lazy image
  imgLoaded,        \* the lazy images carrying class "loaded"
  imgNotified,      \* observation: the image and isIntersecting of the last entry
  animateIn,        \* the [data-animate] elements carrying class "animate-in"
  skillWatched,     \* the progress bars skillObserver observes
  skillTimers,      \* the pending 100 ms timers of skillObserver, oldest first
  skillWidth        \* style.width of each progress bar

navVars == <<hist, hidx, pageActive, navLinkActive, docTitle,
             inThrottle, headerScrolled, scrollTopVisible, scrollY, throttleRuns>>

themeVars == <<storage, storedTheme, dataTheme, themeIcon, themeLog>>

modalVars == <<modalActive, overlayActive, noScroll, focused,
               modalImgSrc, modalImgAlt, modalTitle, modalText>>

menuVars == <<menuActive, menuIcon>>

filterVars == <<filterItemActive, filterTimers, selectValueText, selectActive,
                filterBtnActive, lastClickedBtn, hasSelect, uncaught>>

formVars == <<fieldValue, formBtnDisabled, formBtnHTML, timers,
              lastArgs, ranArgs, funcRuns, burstCalls, submitReturned>>

observerVars == <<imgWatched, imgSrc, imgLoaded, imgNotified, animateIn,
                  skillWatched, skillTimers, skillWidth>>

vars == <<phase, navVars, themeVars, modalVars, menuVars, filterVars,
          formVars, observerVars>>

-----------------------------------------------------------------------------
(* Strings *)

LowerLetters == <<"a","b","c","d","e","f","g","h","i","j","k","l","m",
                  "n","o","p","q","r","s","t","u","v","w","x","y","z">>

UpperLetters == <<"A","B","C","D","E","F","G","H","I","J","K","L","M",
                  "N","O","P","Q","R","S","T","U","V","W","X","Y","Z">>

\* The index of character c in the alphabet letters, 0 when it is not a letter of it.
LetterIndex(c, letters) ==
  IF \E i \in 1..Len(letters) : letters[i] = c
  THEN CHOOSE i \in 1..Len(letters) : letters[i] = c
  ELSE 0

UpperChar(c) ==
  IF LetterIndex(c, LowerLetters) > 0 THEN UpperLetters[LetterIndex(c, LowerLetters)] ELSE c

LowerChar(c) ==
  IF LetterIndex(c, UpperLetters) > 0 THEN LowerLetters[LetterIndex(c, UpperLetters)] ELSE c

\* String.prototype.toLowerCase / toUpperCase
toLowerCase(s) == [i \in 1..Len(s) |-> LowerChar(s[i])]

toUpperCase(s) == [i \in 1..Len(s) |-> UpperChar(s[i])]

\* s.charAt(0): the first character as a string, "" for the empty string
charAt0(s) == IF Len(s) = 0 THEN <<>> ELSE <<s[1]>>

\* s.slice(1)
slice1(s) == IF Len(s) = 0 THEN <<>> ELSE Tail(s)

\* s.includes(t): t occurs in s as a substring; the empty t occurs in every s
includes(s, t) ==
  \E i \in 0..(Len(s) - Len(t)) : SubSeq(s, i + 1, i + Len(t)) = t

-----------------------------------------------------------------------------
(* The markup the script is bound to *)

about     == <<"a","b","o","u","t">>
resume    == <<"r","e","s","u","m","e">>
portfolio == <<"p","o","r","t","f","o","l","i","o">>
contact   == <<"c","o","n","t","a","c","t">>
xyz       == <<"x","y","z">>

\* [data-page] elements, by their data-page value
PageNames == {about, resume, portfolio, contact}

\* [data-nav-link] elements, by their innerHTML
About     == <<"A","b","o","u","t">>
Resume    == <<"R","e","s","u","m","e">>
Portfolio == <<"P","o","r","t","f","o","l","i","o">>
Contact   == <<"C","o","n","t","a","c","t">>

NavLabels == {About, Resume, Portfolio, Contact}

\* link.getAttribute("href") of a nav link: the fragment of its page
NavHref(label) == <<"#">> \o toLowerCase(label)

\* section[id] elements in document order, by id
SectionIds == <<about, resume, portfolio, contact>>

\* document.title as the markup sets it
MarkupTitle == Portfolio

\* The literal " - Portfolio" of the title template
TitleSuffix == <<" ","-"," ">> \o Portfolio

\* The scroll offsets past which the header and the scroll-to-top button change
HeaderOffset == 100

ScrollTopOffset == 500

\* The filter choices, by innerText: the [data-select-item] elements of the
\* dropdown and the [data-filter-btn] elements of the button row carry the same
All  == <<"A","l","l">>
Web  == <<"W","e","b">>
Apps == <<"A","p","p","s">>

FilterLabels == <<All, Web, Apps>>

\* The [data-filter-item] elements in document order, by data-category
FilterCategory == << <<"w","e","b">>, <<"a","p","p","s">>, <<"w","e","b">> >>

\* innerText of [data-select-value] as the markup sets it
MarkupSelectValue == <<"S","e","l","e","c","t">>

\* The fragments a location can carry: none, a page's, or one naming no page
Fragments == PageNames \cup {<<>>, xyz}

-----------------------------------------------------------------------------
(* Bounds *)

\* Session-history entries kept
MaxHist == 2

\* Pending reveal timers of filterFunc
MaxPending == 5

\* Submit handlers under way at one time
MaxInFlight == 2

\* Entries one call of an observer callback is handed
MaxBatch == 2

\* window.scrollY at a scroll event
ScrollYs == {0, 150, 600}

-----------------------------------------------------------------------------
(* Page navigation *)

\* The pages left with class "active" by the pages.forEach of navigateToPage
PagesMatching(pageName) == {p \in PageNames : pageName = p}

\* document.title after navigateToPage: written once per matching page
TitleFor(pageName) == toUpperCase(charAt0(pageName)) \o slice1(pageName) \o TitleSuffix

\* The links left with class "active" by the navigationLinks.forEach of navigateToPage
LinksMatching(pageName) == {l \in NavLabels : toLowerCase(l) = pageName}

navigateToPage(pageName) ==
  /\ pageActive' = PagesMatching(pageName)
  /\ docTitle' = IF PagesMatching(pageName) # {} THEN TitleFor(pageName) ELSE docTitle
  /\ navLinkActive' = LinksMatching(pageName)

\* window.location.hash of a location whose fragment is frag
LocationHash(frag) == IF frag = <<>> THEN <<>> ELSE <<"#">> \o frag

\* initializePage without the lookup of the page element
initializePage_NoLookup(frag) ==
  LET hash == slice1(LocationHash(frag))
  IN  IF hash # <<>> THEN hash ELSE about

\* The page initializePage routes to for the fragment frag
initializePage(frag) ==
  LET hash == slice1(LocationHash(frag))
  IN  IF hash # <<>> /\ hash \in PageNames THEN hash ELSE about

\* The page the popstate listener routes to for the fragment frag
popstateTarget(frag) ==
  LET hash == slice1(LocationHash(frag))
  IN  IF hash # <<>> THEN hash ELSE about

\* initApp at DOMContentLoaded: initial routing on the location's fragment
initApp ==
  /\ phase = "scripted"
  /\ phase' = "ready"
  /\ navigateToPage(initializePage(hist[hidx]))
  /\ UNCHANGED <<hist, hidx, inThrottle, headerScrolled, scrollTopVisible>>
  /\ UNCHANGED <<scrollY, throttleRuns>>
  /\ UNCHANGED <<themeVars, modalVars, menuVars>>
  /\ UNCHANGED filterVars
  /\ UNCHANGED <<formVars, observerVars>>

\* Click on the nav link labelled label: route, then history.pushState
NavLinkClick(label) ==
  /\ phase = "ready"
  /\ hidx < MaxHist
  /\ LET pageName == toLowerCase(label)
     IN  /\ navigateToPage(pageName)
         /\ hist' = Append(SubSeq(hist, 1, hidx), pageName)
         /\ hidx' = hidx + 1
  /\ UNCHANGED <<phase, inThrottle, headerScrolled, scrollTopVisible>>
  /\ UNCHANGED <<scrollY, throttleRuns>>
  /\ UNCHANGED <<themeVars, modalVars, menuVars>>
  /\ UNCHANGED filterVars
  /\ UNCHANGED <<formVars, observerVars>>

\* The popstate listener, run with the location at history entry i
PopState(i) ==
  /\ hidx' = i
  /\ navigateToPage(popstateTarget(hist[i]))
  /\ UNCHANGED <<phase, hist, inThrottle, headerScrolled, scrollTopVisible>>
  /\ UNCHANGED <<scrollY, throttleRuns>>
  /\ UNCHANGED <<themeVars, modalVars, menuVars>>
  /\ UNCHANGED filterVars
  /\ UNCHANGED <<formVars, observerVars>>

\* Browser back: the previous entry becomes current and popstate fires
HistoryBack ==
  /\ phase = "ready"
  /\ hidx > 1
  /\ PopState(hidx - 1)

\* Browser forward: the next entry becomes current and popstate fires
HistoryForward ==
  /\ phase = "ready"
  /\ hidx < Len(hist)
  /\ PopState(hidx + 1)

-----------------------------------------------------------------------------
(* Scroll listeners *)

Throttled == {"handleScroll", "handleScrollTop", "updateActiveNavOnScroll"}

\* `current` of updateActiveNavOnScroll: "" at first, then the id of the last section,
\* in document order, with scrollY >= offsetTop - 200. The layout decides which
\* sections those are (a hidden section has offsetTop 0); last is the index of the
\* last of them, 0 when there is none.
CurrentSection(last) == IF last = 0 THEN <<>> ELSE SectionIds[last]

\* The links left with class "active" by updateActiveNavOnScroll
LinksForSection(current) == {l \in NavLabels : includes(NavHref(l), current)}

\* A throttle() closure that runs its function on every call
ThrottleOpen_Always(h) == TRUE

\* The test `if (!inThrottle)` of the throttle() closure h
ThrottleOpen(h) == ~inThrottle[h]

\* A scroll event at offset y: the three throttled listeners, in registration order.
\* A closure whose window is open runs its function, sets inThrottle and a timer;
\* one whose window is closed does nothing.
ScrollEvent(y, last) ==
  /\ phase = "ready"
  /\ scrollY' = y
  /\ headerScrolled' =
       IF ThrottleOpen("handleScroll") THEN y > HeaderOffset ELSE headerScrolled
  /\ scrollTopVisible' =
       IF ThrottleOpen("handleScrollTop") THEN y > ScrollTopOffset ELSE scrollTopVisible
  /\ navLinkActive' =
       IF ThrottleOpen("updateActiveNavOnScroll")
       THEN LinksForSection(CurrentSection(last))
       ELSE navLinkActive
  /\ inThrottle' = [h \in Throttled |-> TRUE]
  /\ throttleRuns' =
       [h \in Throttled |->
          IF ThrottleOpen(h)
          THEN (IF throttleRuns[h] = 0 THEN 1 ELSE 2)
          ELSE throttleRuns[h]]
  /\ UNCHANGED <<phase, hist, hidx, pageActive, docTitle>>
  /\ UNCHANGED <<themeVars, modalVars, menuVars>>
  /\ UNCHANGED filterVars
  /\ UNCHANGED <<formVars, observerVars>>

\* The timer a throttle() closure set when it ran its function: the window closes
ThrottleTimeout(h) ==
  /\ inThrottle[h]
  /\ inThrottle' = [inThrottle EXCEPT ![h] = FALSE]
  /\ throttleRuns' = [throttleRuns EXCEPT ![h] = 0]
  /\ UNCHANGED <<phase, hist, hidx, pageActive, navLinkActive, docTitle,
                 headerScrolled, scrollTopVisible, scrollY>>
  /\ UNCHANGED <<themeVars, modalVars, menuVars>>
  /\ UNCHANGED filterVars
  /\ UNCHANGED <<formVars, observerVars>>

-----------------------------------------------------------------------------
(* Theme toggle *)

\* localStorage.getItem('theme') || 'dark'
currentTheme(stored) == IF stored = "null" THEN "dark" ELSE stored

\* updateThemeIcon: the icon's classes after remove('fa-sun', 'fa-moon') and add
updateThemeIcon(theme, icon) ==
  (icon \ {"fa-sun", "fa-moon"}) \cup {IF theme = "dark" THEN "fa-moon" ELSE "fa-sun"}

\* A toggle click that applies light whatever the attribute holds
ToggledTheme_AlwaysLight(applied) == "light"

\* The theme a toggle click applies, given the data-theme attribute it reads
ToggledTheme(applied) == IF applied = "dark" THEN "light" ELSE "dark"

\* The observation log with one more pair, cut to its last three
Logged(log, applied, stored) ==
  LET l == Append(log, <<applied, stored>>)
  IN  IF Len(l) > 3 THEN Tail(l) ELSE l

\* The script body: the stored preference, or dark, is applied and shown by the
\* icon; the first filter button is taken as the one clicked last. Where the
\* access to localStorage throws, the exception leaves the script at that
\* statement: nothing below it is executed, no listener is registered.
ScriptBody ==
  /\ phase = "loading"
  /\ IF storage = "blocked"
     THEN /\ phase' = "crashed"
          /\ UNCHANGED <<dataTheme, themeIcon, themeLog, lastClickedBtn>>
     ELSE /\ phase' = "scripted"
          /\ dataTheme' = currentTheme(storedTheme)
          /\ themeIcon' = updateThemeIcon(currentTheme(storedTheme), themeIcon)
          /\ themeLog' = Logged(themeLog, dataTheme', storedTheme)
          /\ lastClickedBtn' = FilterLabels[1]
  /\ UNCHANGED <<storage, storedTheme>>
  /\ UNCHANGED <<filterItemActive, filterTimers, selectValueText, selectActive,
                 filterBtnActive, hasSelect, uncaught>>
  /\ UNCHANGED <<navVars, modalVars, menuVars>>
  /\ UNCHANGED <<formVars, observerVars>>

\* Click on #themeToggle
\* setAttribute, then setItem, then updateThemeIcon: where setItem throws, the
\* handler ends there
ThemeToggleClick ==
  /\ phase = "ready"
  /\ dataTheme' = ToggledTheme(dataTheme)
  /\ IF storage = "ok"
     THEN /\ storedTheme' = dataTheme'
          /\ themeIcon' = updateThemeIcon(dataTheme', themeIcon)
     ELSE UNCHANGED <<storedTheme, themeIcon>>
  /\ themeLog' = Logged(themeLog, dataTheme', storedTheme')
  /\ UNCHANGED <<phase, storage, navVars, modalVars, menuVars>>
  /\ UNCHANGED filterVars
  /\ UNCHANGED <<formVars, observerVars>>

-----------------------------------------------------------------------------
(* Testimonials modal *)

\* The [data-testimonials-item] elements: whether each holds an avatar, a title and
\* a text element, and what these hold
Testimonials ==
  [ A |-> [hasAvatar |-> TRUE,  src |-> "a.png", alt |-> "Ann",
           hasTitle  |-> TRUE,  title |-> "Ann Lee",
           hasText   |-> TRUE,  text |-> "Ann's words"],
    B |-> [hasAvatar |-> TRUE,  src |-> "b.png", alt |-> "Bob",
           hasTitle  |-> TRUE,  title |-> "Bob Ray",
           hasText   |-> TRUE,  text |-> "Bob's words"],
    C |-> [hasAvatar |-> FALSE, src |-> "", alt |-> "",
           hasTitle  |-> TRUE,  title |-> "Cy Poe",
           hasText   |-> TRUE,  text |-> "Cy's words"],
    D |-> [hasAvatar |-> TRUE,  src |-> "d.png", alt |-> "Dee",
           hasTitle  |-> FALSE, title |-> "",
           hasText   |-> FALSE, text |-> ""] ]

ItemIds == DOMAIN Testimonials

\* testimonialsModalFunc: three class toggles, then the focus moves to the close
\* button when the modal has become active
testimonialsModalFunc ==
  /\ modalActive' = ~modalActive
  /\ overlayActive' = ~overlayActive
  /\ noScroll' = ~noScroll
  /\ focused' = IF modalActive' THEN "modalCloseBtn" ELSE focused

\* The click listener of testimonial item i: copy what the item holds, then toggle
ItemClick(i) ==
  LET item == Testimonials[i]
  IN  /\ phase = "ready"
      /\ modalImgSrc' = IF item.hasAvatar THEN item.src ELSE modalImgSrc
      /\ modalImgAlt' = IF item.hasAvatar THEN item.alt ELSE modalImgAlt
      /\ modalTitle' = IF item.hasTitle THEN item.title ELSE modalTitle
      /\ modalText' = IF item.hasText THEN item.text ELSE modalText
      /\ testimonialsModalFunc
      /\ UNCHANGED <<phase, navVars, themeVars, menuVars>>
      /\ UNCHANGED filterVars
      /\ UNCHANGED <<formVars, observerVars>>

\* Click on [data-modal-close-btn]
ModalCloseClick ==
  /\ phase = "ready"
  /\ testimonialsModalFunc
  /\ UNCHANGED <<modalImgSrc, modalImgAlt, modalTitle, modalText>>
  /\ UNCHANGED <<phase, navVars, themeVars, menuVars>>
  /\ UNCHANGED filterVars
  /\ UNCHANGED <<formVars, observerVars>>

\* Click on [data-overlay]
OverlayClick ==
  /\ phase = "ready"
  /\ testimonialsModalFunc
  /\ UNCHANGED <<modalImgSrc, modalImgAlt, modalTitle, modalText>>
  /\ UNCHANGED <<phase, navVars, themeVars, menuVars>>
  /\ UNCHANGED filterVars
  /\ UNCHANGED <<formVars, observerVars>>

\* keydown of Escape: toggles only while the modal is active
EscapeKey ==
  /\ phase = "ready"
  /\ IF modalActive
     THEN testimonialsModalFunc
     ELSE UNCHANGED <<modalActive, overlayActive, noScroll, focused>>
  /\ UNCHANGED <<modalImgSrc, modalImgAlt, modalTitle, modalText>>
  /\ UNCHANGED <<phase, navVars, themeVars, menuVars>>
  /\ UNCHANGED filterVars
  /\ UNCHANGED <<formVars, observerVars>>

-----------------------------------------------------------------------------
(* Mobile menu *)

\* classList.toggle of class c on the class set cs
ClassToggle(cs, c) == IF c \in cs THEN cs \ {c} ELSE cs \cup {c}

\* Click on #mobileMenuBtn
MenuBtnClick ==
  /\ phase = "ready"
  /\ menuActive' = ~menuActive
  /\ menuIcon' = ClassToggle(ClassToggle(menuIcon, "fa-bars"), "fa-times")
  /\ noScroll' = ~noScroll
  /\ UNCHANGED <<modalActive, overlayActive, focused,
                 modalImgSrc, modalImgAlt, modalTitle, modalText>>
  /\ UNCHANGED <<phase, navVars, themeVars>>
  /\ UNCHANGED filterVars
  /\ UNCHANGED <<formVars, observerVars>>

\* Click on a link inside #navLinks: the menu closes
MenuLinkClick ==
  /\ phase = "ready"
  /\ menuActive' = FALSE
  /\ menuIcon' = (menuIcon \ {"fa-times"}) \cup {"fa-bars"}
  /\ noScroll' = FALSE
  /\ UNCHANGED <<modalActive, overlayActive, focused,
                 modalImgSrc, modalImgAlt, modalTitle, modalText>>
  /\ UNCHANGED <<phase, navVars, themeVars>>
  /\ UNCHANGED filterVars
  /\ UNCHANGED <<formVars, observerVars>>

-----------------------------------------------------------------------------
(* Portfolio filter *)

FilterItems == DOMAIN FilterCategory

\* The test of filterFunc on one item
FilterMatches(selectedValue, item) ==
  selectedValue = <<"a","l","l">> \/ selectedValue = FilterCategory[item]

\* The items of the sequence 1..n that pass the test, in order
RECURSIVE MatchingUpTo(_, _)
MatchingUpTo(selectedValue, n) ==
  IF n = 0 THEN <<>>
  ELSE IF FilterMatches(selectedValue, n)
       THEN Append(MatchingUpTo(selectedValue, n - 1), n)
       ELSE MatchingUpTo(selectedValue, n - 1)

\* filterFunc: each matching item gets a 50 ms timer that will show it, each other
\* item is hidden at once
filterFunc(selectedValue) ==
  /\ filterTimers' = filterTimers \o MatchingUpTo(selectedValue, Len(FilterCategory))
  /\ filterItemActive' =
       {i \in filterItemActive : FilterMatches(selectedValue, i)}

\* Room for the timers a selection sets
TimersFit(selectedValue) ==
  Len(filterTimers) + Len(MatchingUpTo(selectedValue, Len(FilterCategory))) <= MaxPending

\* Click on [data-select]: the dropdown opens or closes
SelectClick ==
  /\ phase = "ready"
  /\ hasSelect
  /\ selectActive' = ~selectActive
  /\ UNCHANGED <<filterItemActive, filterTimers, selectValueText, filterBtnActive,
                 lastClickedBtn, hasSelect, uncaught>>
  /\ UNCHANGED <<phase, navVars, themeVars, modalVars, menuVars>>
  /\ UNCHANGED <<formVars, observerVars>>

\* Click on the dropdown item labelled label: the displayed value is set, then
\* elementToggleFunc(select), then filterFunc. Without a [data-select] element
\* select is null and elementToggleFunc throws a TypeError: the handler ends
\* before filterFunc.
SelectItemClick(label) ==
  /\ phase = "ready"
  /\ TimersFit(toLowerCase(label))
  /\ selectValueText' = label
  /\ IF hasSelect
     THEN /\ selectActive' = ~selectActive
          /\ filterFunc(toLowerCase(label))
          /\ UNCHANGED uncaught
     ELSE /\ uncaught' = TRUE
          /\ UNCHANGED <<selectActive, filterTimers, filterItemActive>>
  /\ UNCHANGED <<filterBtnActive, lastClickedBtn, hasSelect>>
  /\ UNCHANGED <<phase, navVars, themeVars, modalVars, menuVars>>
  /\ UNCHANGED <<formVars, observerVars>>

\* Click on the filter button labelled label
FilterBtnClick(label) ==
  /\ phase = "ready"
  /\ TimersFit(toLowerCase(label))
  /\ selectValueText' = label
  /\ filterFunc(toLowerCase(label))
  /\ filterBtnActive' = (filterBtnActive \ {lastClickedBtn}) \cup {label}
  /\ lastClickedBtn' = label
  /\ UNCHANGED <<selectActive, hasSelect, uncaught>>
  /\ UNCHANGED <<phase, navVars, themeVars, modalVars, menuVars>>
  /\ UNCHANGED <<formVars, observerVars>>

\* The oldest pending timer of filterFunc fires: its item is shown
FilterTimerFires ==
  /\ filterTimers # <<>>
  /\ filterItemActive' = filterItemActive \cup {Head(filterTimers)}
  /\ filterTimers' = Tail(filterTimers)
  /\ UNCHANGED <<selectValueText, selectActive, filterBtnActive, lastClickedBtn>>
  /\ UNCHANGED <<hasSelect, uncaught>>
  /\ UNCHANGED <<phase, navVars, themeVars, modalVars, menuVars>>
  /\ UNCHANGED <<formVars, observerVars>>

-----------------------------------------------------------------------------
(* Contact form *)

\* The [data-form-input] fields of the form, both required, the second of
\* type email
FormInputs == {"fullname", "email"}

\* What the user may leave in a field
InputValues(i) ==
  IF i = "email" THEN {<<>>, <<"a">>, <<"a","@","b">>} ELSE {<<>>, <<"a">>}

\* The form as the markup has it and as form.reset() leaves it
DefaultValue == [i \in FormInputs |-> <<>>]

\* The button as the markup has it
MarkupBtnLabel == "Send Message"

Sending == "Sending..."

Sent == "Sent!"

\* An address has characters before and after an "@"
EmailWellFormed(v) == \E k \in 2..(Len(v) - 1) : v[k] = "@"

\* Native constraint validation of one field
FieldValid(i, v) ==
  /\ v # <<>>
  /\ i = "email" => EmailWellFormed(v)

\* form.checkValidity()
checkValidity(values) == \A i \in FormInputs : FieldValid(i, values[i])

\* validateForm: the button is enabled exactly when the form is valid now
validateForm == formBtnDisabled' = ~checkValidity(fieldValue)

\* The delay of a timer: setTimeout(later, 300) of debounce, the 2000 ms of the
\* await and of the reset in the submit handler
Delay(kind) == IF kind = "debounce" THEN 300 ELSE 2000

\* A timer of the form: its kind ("debounce", "resolve", "reset"), for a
\* debounce timer its closure and the arguments `later` holds, for the timers of
\* a submit handler the originalText the handler holds
Timer(kind, closure, args, originalText) ==
  [kind |-> kind, closure |-> closure, args |-> args, originalText |-> originalText]

\* The timer at position k may fire next: no timer set before it with a delay
\* no longer than its own is still pending
CanFire(k) ==
  /\ k \in DOMAIN timers
  /\ \A m \in 1..(k - 1) : Delay(timers[m].kind) > Delay(timers[k].kind)

\* The timers without those at the positions in ks
Without(ts, ks) ==
  LET keep(n) == Cardinality({m \in 1..n : m \notin ks})
      at(j) == CHOOSE m \in DOMAIN ts : m \notin ks /\ keep(m) = j
  IN  [j \in 1..keep(Len(ts)) |-> ts[at(j)]]

\* The positions of the pending timers of the debounce() closure of field i
TimersOf(ts, i) ==
  {m \in DOMAIN ts : ts[m].kind = "debounce" /\ ts[m].closure = i}

\* Per debounce() closure: the arguments held by its pending timers, oldest first
timeout ==
  [i \in FormInputs |->
     LET mine == Without(timers, DOMAIN timers \ TimersOf(timers, i))
     IN  [j \in DOMAIN mine |-> mine[j].args]]

\* The submit handlers not yet finished, oldest first
inflight == Without(timers, {m \in DOMAIN timers : timers[m].kind = "debounce"})

\* A debounce() closure that sets its timer without clearing the one before
\* (no more than two are kept)
Debounced_NoClear(ts, i, args) ==
  IF Cardinality(TimersOf(ts, i)) < 2
  THEN Append(ts, Timer("debounce", i, args, ""))
  ELSE ts

\* A call of the debounce() closure of field i: clearTimeout(timeout), then
\* timeout = setTimeout(later, wait), later holding the arguments of this call
Debounced(ts, i, args) ==
  Append(Without(ts, TimersOf(ts, i)), Timer("debounce", i, args, ""))

\* The timers left when the debounce timer at position k has fired: its `later`
\* clears the timer its closure set last, which is itself unless a later call
\* set another
AfterLater(ts, k) ==
  LET others == TimersOf(ts, ts[k].closure) \ {k}
      last == IF others = {} THEN {}
              ELSE {CHOOSE m \in others : \A n \in others : n <= m}
  IN  Without(ts, {k} \cup last)

\* One more, counted up to two
UpToTwo(n) == IF n = 0 THEN 1 ELSE 2

\* An input event on field i leaving the value v: the field's debounced
\* validateForm is called with the event as its one argument
InputEvent(i, v) ==
  /\ phase = "ready"
  /\ v # fieldValue[i]
  /\ fieldValue' = [fieldValue EXCEPT ![i] = v]
  /\ timers' = Debounced(timers, i, <<v>>)
  /\ lastArgs' = [lastArgs EXCEPT ![i] = <<v>>]
  /\ burstCalls' = [burstCalls EXCEPT ![i] =
                      IF timeout[i] = <<>> THEN 1 ELSE UpToTwo(burstCalls[i])]
  /\ funcRuns' = [funcRuns EXCEPT ![i] = 0]
  /\ submitReturned' = FALSE
  /\ UNCHANGED <<formBtnDisabled, formBtnHTML, ranArgs>>
  /\ UNCHANGED <<phase, navVars, themeVars, modalVars, menuVars>>
  /\ UNCHANGED <<filterVars, observerVars>>

\* A timer of the debounce() closure of field i fires: `later` runs validateForm
DebounceFires(i) ==
  /\ \E k \in TimersOf(timers, i) :
       /\ CanFire(k)
       /\ timers' = AfterLater(timers, k)
       /\ ranArgs' = [ranArgs EXCEPT ![i] = timers[k].args]
  /\ validateForm
  /\ funcRuns' = [funcRuns EXCEPT ![i] = UpToTwo(funcRuns[i])]
  /\ submitReturned' = FALSE
  /\ UNCHANGED <<fieldValue, formBtnHTML, lastArgs, burstCalls>>
  /\ UNCHANGED <<phase, navVars, themeVars, modalVars, menuVars>>
  /\ UNCHANGED <<filterVars, observerVars>>

\* A submit handler that never returns early
Invalid_Never(values) == FALSE

\* The test of `if (!form.checkValidity()) return;`
Invalid(values) == ~checkValidity(values)

\* A submit event, which an enabled submit button allows: the handler up to its
\* await. It returns at once when the form is not valid.
Submit ==
  /\ phase = "ready"
  /\ ~formBtnDisabled
  /\ Len(inflight) < MaxInFlight
  /\ IF Invalid(fieldValue)
     THEN /\ submitReturned' = TRUE
          /\ UNCHANGED <<formBtnDisabled, formBtnHTML, timers>>
     ELSE /\ submitReturned' = FALSE
          /\ formBtnDisabled' = TRUE
          /\ formBtnHTML' = Sending
          /\ timers' = Append(timers, Timer("resolve", "", <<>>, formBtnHTML))
  /\ UNCHANGED <<fieldValue, lastArgs, ranArgs, funcRuns, burstCalls>>
  /\ UNCHANGED <<phase, navVars, themeVars, modalVars, menuVars>>
  /\ UNCHANGED <<filterVars, observerVars>>

\* The 2000 ms of an awaiting handler are over: it shows the success label and
\* sets the reset timer
SubmitResolved ==
  /\ \E k \in DOMAIN timers :
       /\ CanFire(k)
       /\ timers[k].kind = "resolve"
       /\ timers' = Append(Without(timers, {k}),
                           Timer("reset", "", <<>>, timers[k].originalText))
  /\ formBtnHTML' = Sent
  /\ submitReturned' = FALSE
  /\ UNCHANGED <<fieldValue, formBtnDisabled, lastArgs, ranArgs, funcRuns, burstCalls>>
  /\ UNCHANGED <<phase, navVars, themeVars, modalVars, menuVars>>
  /\ UNCHANGED <<filterVars, observerVars>>

\* The reset timer of a handler fires: form.reset() and the label the handler
\* found when it started
SubmitReset ==
  /\ \E k \in DOMAIN timers :
       /\ CanFire(k)
       /\ timers[k].kind = "reset"
       /\ timers' = Without(timers, {k})
       /\ formBtnHTML' = timers[k].originalText
  /\ fieldValue' = DefaultValue
  /\ submitReturned' = FALSE
  /\ UNCHANGED <<formBtnDisabled, lastArgs, ranArgs, funcRuns, burstCalls>>
  /\ UNCHANGED <<phase, navVars, themeVars, modalVars, menuVars>>
  /\ UNCHANGED <<filterVars, observerVars>>

-----------------------------------------------------------------------------
(* Intersection observers *)

\* The img[data-src] elements and their data-src
Images == {"img1", "img2"}

ImgDataSrc == [img1 |-> "one.jpg", img2 |-> "two.jpg"]

\* src of a lazy image in the markup
MarkupImgSrc == "blank.gif"

\* The [data-animate] elements
AnimateEls == {"sec1", "sec2"}

\* The .skill-progress-fill bars and their data-progress, "" where a bar has none
SkillBars == {"bar1", "bar2"}

DataProgress == [bar1 |-> "80%", bar2 |-> ""]

\* An imageObserver callback that leaves the image observed
ImageEntry_KeepWatching(st, entry) ==
  IF entry[2]
  THEN IF ImgDataSrc[entry[1]] # ""
       THEN [watched |-> st.watched,
             src     |-> [st.src EXCEPT ![entry[1]] = ImgDataSrc[entry[1]]],
             loaded  |-> st.loaded \cup {entry[1]}]
       ELSE st
  ELSE st

\* The imageObserver callback on one entry <<img, isIntersecting>>, st holding
\* the observed images, the src of each image and the loaded images
ImageEntry(st, entry) ==
  IF entry[2]
  THEN IF ImgDataSrc[entry[1]] # ""
       THEN [watched |-> st.watched \ {entry[1]},
             src     |-> [st.src EXCEPT ![entry[1]] = ImgDataSrc[entry[1]]],
             loaded  |-> st.loaded \cup {entry[1]}]
       ELSE [st EXCEPT !.watched = st.watched \ {entry[1]}]
  ELSE st

\* entries.forEach of the imageObserver callback
RECURSIVE ImageEntries(_, _)
ImageEntries(st, entries) ==
  IF entries = <<>> THEN st
  ELSE ImageEntries(ImageEntry(st, Head(entries)), Tail(entries))

\* The batches of entries the browser may hand to an observer of the targets ts
Batches(ts) ==
  UNION {[1..n -> ts \X BOOLEAN] : n \in 1..MaxBatch}

\* The browser calls the imageObserver callback with entries it has queued for
\* images observed at that time
ImageCallback(entries) ==
  /\ phase = "ready"
  /\ entries \in Batches(imgWatched)
  /\ LET st == ImageEntries([watched |-> imgWatched, src |-> imgSrc,
                             loaded |-> imgLoaded], entries)
     IN  /\ imgWatched' = st.watched
         /\ imgSrc' = st.src
         /\ imgLoaded' = st.loaded
  /\ imgNotified' = [entries |-> entries, tick |-> 1 - imgNotified.tick]
  /\ UNCHANGED <<animateIn, skillWatched, skillTimers, skillWidth>>
  /\ UNCHANGED <<phase, navVars, themeVars, modalVars, menuVars>>
  /\ UNCHANGED <<filterVars, formVars>>

\* The animateOnScroll callback on one entry
AnimateCallback(el, isIntersecting) ==
  /\ phase = "ready"
  /\ animateIn' = IF isIntersecting THEN animateIn \cup {el} ELSE animateIn
  /\ UNCHANGED <<imgWatched, imgSrc, imgLoaded, imgNotified>>
  /\ UNCHANGED <<skillWatched, skillTimers, skillWidth>>
  /\ UNCHANGED <<phase, navVars, themeVars, modalVars, menuVars>>
  /\ UNCHANGED <<filterVars, formVars>>

\* The skillObserver callback on one entry
SkillCallback(bar, isIntersecting) ==
  /\ phase = "ready"
  /\ bar \in skillWatched
  /\ IF isIntersecting
     THEN /\ skillTimers' = Append(skillTimers, bar)
          /\ skillWatched' = skillWatched \ {bar}
     ELSE UNCHANGED <<skillTimers, skillWatched>>
  /\ UNCHANGED <<imgWatched, imgSrc, imgLoaded, imgNotified, animateIn, skillWidth>>
  /\ UNCHANGED <<phase, navVars, themeVars, modalVars, menuVars>>
  /\ UNCHANGED <<filterVars, formVars>>

\* getAttribute("data-progress") || "0%"
targetWidth(bar) == IF DataProgress[bar] = "" THEN "0%" ELSE DataProgress[bar]

\* The oldest 100 ms timer of skillObserver fires
SkillTimerFires ==
  /\ skillTimers # <<>>
  /\ skillWidth' = [skillWidth EXCEPT ![Head(skillTimers)] =
                                         targetWidth(Head(skillTimers))]
  /\ skillTimers' = Tail(skillTimers)
  /\ UNCHANGED <<imgWatched, imgSrc, imgLoaded, imgNotified, animateIn, skillWatched>>
  /\ UNCHANGED <<phase, navVars, themeVars, modalVars, menuVars>>
  /\ UNCHANGED <<filterVars, formVars>>

-----------------------------------------------------------------------------
(* The controllers as the markup and an earlier load leave them *)

ObserversAtRest ==
  /\ imgWatched = Images
  /\ imgSrc = [i \in Images |-> MarkupImgSrc]
  /\ imgLoaded = {}
  /\ imgNotified = [entries |-> <<>>, tick |-> 0]
  /\ animateIn = {}
  /\ skillWatched = SkillBars
  /\ skillTimers = <<>>
  /\ skillWidth = [b \in SkillBars |-> ""]

FormAtRest ==
  /\ fieldValue = DefaultValue
  /\ formBtnDisabled = TRUE
  /\ formBtnHTML = MarkupBtnLabel
  /\ timers = <<>>
  /\ lastArgs = [i \in FormInputs |-> <<>>]
  /\ ranArgs = [i \in FormInputs |-> <<>>]
  /\ funcRuns = [i \in FormInputs |-> 0]
  /\ burstCalls = [i \in FormInputs |-> 0]
  /\ submitReturned = FALSE

FilterMarkup ==
  /\ filterItemActive = FilterItems
  /\ filterTimers = <<>>
  /\ selectValueText = MarkupSelectValue
  /\ selectActive = FALSE
  /\ filterBtnActive = {All}
  /\ uncaught = FALSE

FilterAtRest ==
  /\ FilterMarkup
  /\ hasSelect = TRUE
  /\ lastClickedBtn = FilterLabels[1]

NavAtRest ==
  /\ hist = << <<>> >>
  /\ hidx = 1
  /\ pageActive = {about}
  /\ navLinkActive = {About}
  /\ docTitle = MarkupTitle
  /\ inThrottle = [h \in Throttled |-> FALSE]
  /\ headerScrolled = FALSE
  /\ scrollTopVisible = FALSE
  /\ scrollY = 0
  /\ throttleRuns = [h \in Throttled |-> 0]

ThemeMarkup ==
  /\ dataTheme = "null"
  /\ themeIcon = {"fas", "fa-moon"}
  /\ themeLog = <<>>

ThemeAtRest ==
  /\ storage = "ok"
  /\ storedTheme = "null"
  /\ dataTheme = "dark"
  /\ themeIcon = {"fas", "fa-moon"}
  /\ themeLog = << <<"dark", "null">> >>

ModalAtRest ==
  /\ modalActive = FALSE
  /\ overlayActive = FALSE
  /\ noScroll = FALSE
  /\ focused = "body"
  /\ modalImgSrc = ""
  /\ modalImgAlt = ""
  /\ modalTitle = ""
  /\ modalText = ""

MenuAtRest ==
  /\ menuActive = FALSE
  /\ menuIcon = {"fas", "fa-bars"}

-----------------------------------------------------------------------------
(* The specification of the theme toggle, the modal and the mobile menu *)

\* The page before the script runs, whatever the storage allows
InitAnyStorage ==
  /\ phase = "loading"
  /\ FilterMarkup
  /\ lastClickedBtn = "undefined"
  /\ hasSelect = TRUE
  /\ storage \in {"ok", "readonly", "blocked"}
  /\ storedTheme \in {"null", "dark", "light"}
  /\ ThemeMarkup
  /\ ModalAtRest
  /\ MenuAtRest
  /\ NavAtRest
  /\ FormAtRest
  /\ ObserversAtRest

InitUI == InitAnyStorage /\ storage = "ok"

NextUI ==
  \/ ScriptBody
  \/ initApp
  \/ ThemeToggleClick
  \/ \E i \in ItemIds : ItemClick(i)
  \/ ModalCloseClick
  \/ OverlayClick
  \/ EscapeKey
  \/ MenuBtnClick
  \/ MenuLinkClick

SpecUI == InitUI /\ [][NextUI]_vars

\* The same controllers in a browser whose localStorage may throw
SpecIsolation == InitAnyStorage /\ [][NextUI]_vars

-----------------------------------------------------------------------------
(* The specification of the portfolio filter *)

\* The page before the script runs, with or without a [data-select] element
InitAnyMarkup ==
  /\ phase = "loading"
  /\ FilterMarkup
  /\ hasSelect \in BOOLEAN
  /\ lastClickedBtn = "undefined"
  /\ storage = "ok"
  /\ storedTheme = "null"
  /\ ThemeMarkup
  /\ ModalAtRest
  /\ MenuAtRest
  /\ NavAtRest
  /\ FormAtRest
  /\ ObserversAtRest

InitFilter == InitAnyMarkup /\ hasSelect = TRUE

NextFilter ==
  \/ ScriptBody
  \/ initApp
  \/ SelectClick
  \/ \E i \in DOMAIN FilterLabels : SelectItemClick(FilterLabels[i])
  \/ \E i \in DOMAIN FilterLabels : FilterBtnClick(FilterLabels[i])
  \/ FilterTimerFires

SpecFilter == InitFilter /\ [][NextFilter]_vars

\* The filter on a page that may lack the [data-select] element
SpecMissing == InitAnyMarkup /\ [][NextFilter]_vars

-----------------------------------------------------------------------------
(* Properties of the theme toggle, the modal and the mobile menu *)

C19_ThemeInvariant ==
  phase # "loading" =>
    /\ dataTheme \in {"dark", "light"}
    /\ ("fa-moon" \in themeIcon) <=> (dataTheme = "dark")
    /\ ("fa-sun" \in themeIcon) <=> (dataTheme = "light")
    /\ Len(themeLog) = 1 =>
         dataTheme = (IF storedTheme = "null" THEN "dark" ELSE storedTheme)
    /\ Len(themeLog) >= 2 => storedTheme = dataTheme

\* C13: a failure in one controller leaves the others working: where reading the
\* stored preference throws, the theme is dark and the script goes on to set up
\* the other controllers; where writing it throws, theme and icon are flipped
\* all the same.
C13_FailureIsolated ==
  /\ phase # "crashed"
  /\ (storage = "blocked" /\ phase # "loading") => dataTheme = "dark"
  /\ phase = "ready" => (("fa-moon" \in themeIcon) <=> (dataTheme = "dark"))

\* What the other items hold in the field f
OthersHold(b, has, f) ==
  {Testimonials[a][f] : a \in {x \in ItemIds \ {b} : Testimonials[x][has]}}

\* C7: a click on item B leaves every display field of the modal (image source,
\* image alt, title, body) equal to B's field, and none holding what another item
\* holds, also for an item B without an avatar, a title or a text element.
C7_ModalShowsClickedItem ==
  [][\A b \in ItemIds : ItemClick(b) =>
        LET item == Testimonials[b]
        IN  /\ IF item.hasAvatar
               THEN modalImgSrc' = item.src /\ modalImgAlt' = item.alt
               ELSE /\ modalImgSrc' \notin OthersHold(b, "hasAvatar", "src")
                    /\ modalImgAlt' \notin OthersHold(b, "hasAvatar", "alt")
            /\ IF item.hasTitle
               THEN modalTitle' = item.title
               ELSE modalTitle' \notin OthersHold(b, "hasTitle", "title")
            /\ IF item.hasText
               THEN modalText' = item.text
               ELSE modalText' \notin OthersHold(b, "hasText", "text")]_vars

\* C8: under any interleaving of item clicks, close gestures and mobile-menu
\* clicks, the overlay is visible iff the modal is, and while the modal is visible
\* the body carries no-scroll.
C8_ModalVisibleSuppressesScroll ==
  /\ overlayActive <=> modalActive
  /\ modalActive => noScroll

\* C21: under any interleaving of modal open/close and mobile-menu
\* open/close/link-click events, when the modal is closed and the menu is closed
\* the body does not carry no-scroll: the page is never left unscrollable.
C21_ScrollSuppressionBalanced ==
  (phase = "ready" /\ ~modalActive /\ ~menuActive) => ~noScroll

\* C22: a close gesture never opens the modal: Escape while the modal is closed
\* leaves the modal, the overlay and no-scroll as they are, and a click on the
\* close button or on the overlay never takes the modal from closed to open.
C22_CloseGestureNeverOpens ==
  [][(~modalActive /\ (ModalCloseClick \/ OverlayClick \/ EscapeKey)) =>
       /\ ~modalActive'
       /\ overlayActive' = overlayActive
       /\ noScroll' = noScroll]_vars

-----------------------------------------------------------------------------
(* Properties of the portfolio filter *)

\* The filter selected last, as both click listeners record it in the dropdown's
\* displayed value
SelectionMade == \E i \in DOMAIN FilterLabels : selectValueText = FilterLabels[i]

\* C9: after any sequence of filter selections, once every pending reveal timer
\* has fired, an item is visible iff its category is the filter selected last or
\* that filter is "all".
C9_VisibleIffMatchesFilter ==
  (phase = "ready" /\ SelectionMade /\ filterTimers = <<>>) =>
    filterItemActive =
      {i \in FilterItems :
         \/ toLowerCase(selectValueText) = <<"a","l","l">>
         \/ toLowerCase(selectValueText) = FilterCategory[i]}

\* C10: after any sequence of selections through the dropdown or the button row,
\* the highlighted button is the one of the category selected last, which the
\* dropdown displays.
C10_ButtonRowFollowsSelection ==
  (phase = "ready" /\ SelectionMade) => filterBtnActive = {selectValueText}

\* C14: whatever target elements the markup lacks, no initialisation and no
\* event handler dereferences a missing element: a click on a dropdown item
\* with the [data-select] container absent applies the filter and raises
\* nothing.
C14_NoHandlerRaises == ~uncaught

-----------------------------------------------------------------------------
(* The navigation specification *)

\* The navigation controller from the end of the script body on, the other
\* controllers at rest
InitNav ==
  /\ phase = "scripted"
  /\ ThemeAtRest
  /\ ModalAtRest
  /\ MenuAtRest
  /\ FilterAtRest
  /\ FormAtRest
  /\ ObserversAtRest
  /\ \E f \in Fragments : hist = <<f>>
  /\ hidx = 1
  /\ pageActive \in SUBSET PageNames
  /\ navLinkActive \in {{}, {About}}
  /\ docTitle = MarkupTitle
  /\ inThrottle = [h \in Throttled |-> FALSE]
  /\ headerScrolled = FALSE
  /\ scrollTopVisible = FALSE
  /\ scrollY = 0
  /\ throttleRuns = [h \in Throttled |-> 0]

NextNav ==
  \/ initApp
  \/ \E l \in NavLabels : NavLinkClick(l)
  \/ HistoryBack
  \/ HistoryForward
  \* the scroll offsets matter to the scroll specification only: two suffice here
  \/ \E y \in {0, 600}, last \in 0..Len(SectionIds) : ScrollEvent(y, last)
  \/ \E h \in Throttled : ThrottleTimeout(h)

SpecNav == InitNav /\ [][NextNav]_vars

-----------------------------------------------------------------------------
(* Properties of the navigation controller *)

\* The page a fragment selects under the routing rule of the specification:
\* the page it names, the default page when it is empty or names none
RoutedPage(frag) == IF frag \in PageNames THEN frag ELSE about

\* C1: after initial routing, and after any nav-link clicks and back/forward
\* (popstate) events, exactly one page element is active, whatever fragment the
\* location carries.
C1_ExactlyOnePageActive == phase = "ready" => Cardinality(pageActive) = 1

\* C2: a popstate event routes as the load does: the page the current fragment
\* names becomes the active page, and an empty or unrecognised fragment activates
\* the default page about.
C2_PopstateRoutesAsLoad ==
  [][(HistoryBack \/ HistoryForward) => pageActive' = {RoutedPage(hist'[hidx'])}]_vars

\* C3: at page initialisation an empty fragment or one naming no existing page
\* makes about the single active page, and a fragment naming an existing page
\* makes that page the single active page.
C3_InitialRouting ==
  [][initApp => pageActive' = {RoutedPage(hist[hidx])}]_vars

\* C3 witness: the page was loaded with a fragment naming no page, initApp has run
\* and about is the active page.
C3_Witness ==
  /\ phase = "ready"
  /\ hist = <<xyz>>
  /\ pageActive = {about}

\* C4: after initial routing, under any interleaving of nav-link clicks, popstate
\* and scroll events, a navigation link is highlighted iff its lower-cased label is
\* the name of the active page.
C4_LinksMatchActivePage ==
  phase = "ready" =>
    navLinkActive = {l \in NavLabels : toLowerCase(l) \in pageActive}

\* C5: after every routing step the document title is the active page's name with
\* its first letter upper-cased, followed by " - Portfolio"; the title never names
\* a page that is not the active one.
C5_TitleNamesActivePage ==
  phase = "ready" =>
    \E l \in NavLabels :
      /\ pageActive = {toLowerCase(l)}
      /\ docTitle = l \o <<" ","-"," ","P","o","r","t","f","o","l","i","o">>

-----------------------------------------------------------------------------
(* The scroll specification *)

\* Scrolling alone: the load, scroll events and the throttle timers
NextScroll ==
  \/ initApp
  \/ \E y \in ScrollYs, last \in 0..Len(SectionIds) : ScrollEvent(y, last)
  \/ \E h \in Throttled : ThrottleTimeout(h)

\* A timer set with setTimeout fires: each throttle window is closed in the end
SpecScroll ==
  /\ InitNav
  /\ [][NextScroll]_vars
  /\ \A h \in Throttled : WF_vars(ThrottleTimeout(h))

-----------------------------------------------------------------------------
(* Properties of the scroll handlers and of throttle() *)

\* C15: once scrolling has stopped and every throttle window has elapsed, the
\* header carries "scrolled" exactly when the final scroll offset exceeds the
\* header threshold, and the scroll-to-top button is visible exactly when the
\* offset exceeds its own threshold.
C15_FlagsTrackFinalOffset ==
  (phase = "ready" /\ \A h \in Throttled : ~inThrottle[h]) =>
    /\ headerScrolled = (scrollY > HeaderOffset)
    /\ scrollTopVisible = (scrollY > ScrollTopOffset)

\* A call of a throttled function inside its window changes nothing the function
\* writes and leaves the window as it is; a call outside a window runs the
\* function on the spot
C17_DiscardedInsideWindow ==
  /\ ~inThrottle["handleScroll"] /\ inThrottle'["handleScroll"] =>
       headerScrolled' = (scrollY' > HeaderOffset)
  /\ ~inThrottle["handleScrollTop"] /\ inThrottle'["handleScrollTop"] =>
       scrollTopVisible' = (scrollY' > ScrollTopOffset)
  /\ inThrottle["handleScroll"] /\ inThrottle'["handleScroll"] =>
       headerScrolled' = headerScrolled
  /\ inThrottle["handleScrollTop"] /\ inThrottle'["handleScrollTop"] =>
       scrollTopVisible' = scrollTopVisible
  /\ inThrottle["updateActiveNavOnScroll"] /\ inThrottle'["updateActiveNavOnScroll"] =>
       navLinkActive' = navLinkActive

\* C17: a throttled function runs at most once per window; the first call
\* outside a window runs at once and opens the window; calls inside the window
\* are discarded, nothing is scheduled for them; every window closes in the end.
C17_ThrottleOncePerWindow ==
  /\ [](\A h \in Throttled :
          /\ throttleRuns[h] <= 1
          /\ inThrottle[h] <=> throttleRuns[h] = 1)
  /\ [][C17_DiscardedInsideWindow]_vars
  /\ \A h \in Throttled : inThrottle[h] ~> ~inThrottle[h]

\* An event at offset 600 arrived inside the window opened by an event at a
\* small offset: handleScroll ran once and the later call was discarded
C17_Witness ==
  /\ phase = "ready"
  /\ scrollY = 600
  /\ inThrottle["handleScroll"]
  /\ throttleRuns["handleScroll"] = 1
  /\ ~headerScrolled

-----------------------------------------------------------------------------
(* The specification of the contact form *)

NextForm ==
  \/ ScriptBody
  \/ initApp
  \/ \E i \in FormInputs : \E v \in InputValues(i) : InputEvent(i, v)
  \/ \E i \in FormInputs : DebounceFires(i)
  \/ Submit
  \/ SubmitResolved
  \/ SubmitReset

\* Timers fire. Every burst of input events ends, so a closure whose timer may
\* fire again and again does have it fire; the await of a submit handler and its
\* reset timer run in the end.
SpecForm ==
  /\ InitFilter
  /\ [][NextForm]_vars
  /\ \A i \in FormInputs : SF_vars(DebounceFires(i))
  /\ WF_vars(SubmitResolved)
  /\ WF_vars(SubmitReset)

\* The debounced validation alone: input events and the timers of debounce()
NextDebounce ==
  \/ ScriptBody
  \/ initApp
  \/ \E i \in FormInputs : \E v \in InputValues(i) : InputEvent(i, v)
  \/ \E i \in FormInputs : DebounceFires(i)

SpecDebounce ==
  /\ InitFilter
  /\ [][NextDebounce]_vars
  /\ \A i \in FormInputs : SF_vars(DebounceFires(i))

-----------------------------------------------------------------------------
(* Properties of the contact form and of debounce() *)

\* C11: in every reachable state the submit button is enabled only if the form
\* passes validation now, the quiet period after an edit that made a valid form
\* invalid included.
C11_EnabledOnlyIfValid ==
  phase = "ready" => (~formBtnDisabled => checkValidity(fieldValue))

\* C12: every submission of a valid form shows sending, then sent, and after the
\* reset delay the fields are cleared and the button has the label it had before
\* any submission started, whatever input and submit events arrive, input
\* events during a submission included.
C12_OriginalLabelRestored ==
  (phase = "ready" /\ inflight = <<>>) => formBtnHTML = MarkupBtnLabel

\* C20: while a submission is in flight, from the submit event until its reset
\* has run, the submit button stays disabled, input events and their debounced
\* validation notwithstanding.
C20_DisabledWhileInFlight ==
  inflight # <<>> => formBtnDisabled

\* C23: a submit event on a form that fails validation has no effect: the
\* button's content and its disabled attribute, the form fields and all pending
\* timers stay as they are, and no sending state is entered.
C23_InvalidSubmitNoEffect ==
  [][(Submit /\ ~checkValidity(fieldValue)) =>
       /\ submitReturned'
       /\ UNCHANGED <<formBtnHTML, formBtnDisabled, fieldValue, timers>>
       /\ inflight' = inflight]_vars

\* The handler has just returned on a form with an empty field, the button
\* enabled and labelled as in the markup, a debounce timer still pending
C23_Witness ==
  /\ submitReturned
  /\ ~formBtnDisabled
  /\ ~checkValidity(fieldValue)
  /\ formBtnHTML = MarkupBtnLabel
  /\ timers # <<>>
  /\ inflight = <<>>

\* C16: a call of a debounced function cancels the pending invocation: over a
\* burst of calls the wrapped function does not run, once the quiet period
\* after the last call is over it has run exactly once, with the arguments of
\* the last call, and after every burst it is run in the end.
C16_DebounceRunsOnceWithLastArgs ==
  /\ [](\A i \in FormInputs :
          /\ timeout[i] # <<>> =>
               /\ timeout[i] = <<lastArgs[i]>>
               /\ funcRuns[i] = 0
          /\ (timeout[i] = <<>> /\ lastArgs[i] # <<>>) =>
               /\ funcRuns[i] = 1
               /\ ranArgs[i] = lastArgs[i])
  /\ \A i \in FormInputs : (timeout[i] # <<>>) ~> (timeout[i] = <<>>)

\* The email field was edited twice within one quiet period and validateForm
\* then ran once, with the second event
C16_Witness ==
  /\ lastArgs["email"] = << <<"a","@","b">> >>
  /\ ranArgs["email"] = << <<"a","@","b">> >>
  /\ funcRuns["email"] = 1
  /\ burstCalls["email"] = 2
  /\ timeout["email"] = <<>>
  /\ ranArgs["fullname"] = <<>>
  /\ fieldValue["fullname"] = <<>>
  /\ formBtnDisabled

-----------------------------------------------------------------------------
(* The specification of the intersection observers *)

NextObservers ==
  \/ ScriptBody
  \/ initApp
  \/ \E entries \in Batches(Images) : ImageCallback(entries)
  \/ \E el \in AnimateEls, b \in BOOLEAN : AnimateCallback(el, b)
  \/ \E bar \in SkillBars, b \in BOOLEAN : SkillCallback(bar, b)
  \/ SkillTimerFires

SpecObservers == InitFilter /\ [][NextObservers]_vars

-----------------------------------------------------------------------------
(* Properties of the lazy image loader *)

\* The entries just handed to the imageObserver callback hold an intersecting
\* one for img
C18_Intersecting(img) ==
  \E k \in DOMAIN imgNotified'.entries : imgNotified'.entries[k] = <<img, TRUE>>

\* What one step does to a lazy image
C18_OneShot ==
  \A img \in Images :
    /\ (imgNotified' # imgNotified /\ img \in imgWatched /\ C18_Intersecting(img)) =>
         /\ imgSrc'[img] = ImgDataSrc[img]
         /\ img \in imgLoaded'
         /\ img \notin imgWatched'
    /\ (img \in imgWatched /\ ~(imgNotified' # imgNotified /\ C18_Intersecting(img))) =>
         /\ imgSrc'[img] = imgSrc[img]
         /\ img \notin imgLoaded'
         /\ img \in imgWatched'
    /\ img \notin imgWatched =>
         /\ imgSrc'[img] = imgSrc[img]
         /\ img \in imgLoaded'
         /\ img \notin imgWatched'

====
